---------------------------- MODULE Spec2Model ----------------------------
(***************************************************************************)
(* A model of src/src/dcache_exporter.py: the Prometheus collector that    *)
(* fetches the dCache info XML snapshot and republishes selected fields.   *)
(*                                                                         *)
(* Strings are TLA+ strings, handled character by character (Len, SubSeq,  *)
(* \o), so that the name transforms, the '@' stripping, the tag regexes    *)
(* and the text coercions are computed as the code computes them.          *)
(* Python's None is the value NoneVal.  A number is a pair [num, den]      *)
(* (the rational num/den): int(text) has den = 1, x / 1000.0 multiplies    *)
(* den by 1000; float rounding is not modelled.                            *)
(***************************************************************************)
EXTENDS Integers, Sequences, FiniteSets, TLC

(***************************************************************************)
(* Bounds of the model.                                                    *)
(***************************************************************************)
\* Number of scrape threads the metrics server runs at once.
NThreads == 2
\* The fetch buffer `data` is tracked by its number of chunks, up to this.
MaxChunks == 2

NoneVal == "<None>"

(***************************************************************************)
(* Python string operations.                                               *)
(***************************************************************************)
Ch(s, i) == SubSeq(s, i, i)

\* str.find(c): 0-based index of the first occurrence, -1 when absent
Find(s, c) ==
  IF \E i \in 1..Len(s) : Ch(s, i) = c
  THEN (CHOOSE i \in 1..Len(s) : Ch(s, i) = c /\ \A j \in 1..(i-1) : Ch(s, j) # c) - 1
  ELSE -1

\* the index (1-based) of the last occurrence of c in s, 0 when absent
RFind(s, c) ==
  IF \E i \in 1..Len(s) : Ch(s, i) = c
  THEN CHOOSE i \in 1..Len(s) : Ch(s, i) = c /\ \A j \in (i+1)..Len(s) : Ch(s, j) # c
  ELSE 0

\* c in s, for a one-character c
Contains(s, c) == \E i \in 1..Len(s) : Ch(s, i) = c

\* s[:n] for 0 <= n
Prefix(s, n) == SubSeq(s, 1, IF n < Len(s) THEN n ELSE Len(s))

\* s[:-n]
DropLast(s, n) == SubSeq(s, 1, Len(s) - n)

\* s.endswith(suf)
EndsWith(s, suf) ==
  /\ Len(suf) <= Len(s)
  /\ SubSeq(s, Len(s) - Len(suf) + 1, Len(s)) = suf

RECURSIVE Replace(_, _, _)
\* s.replace(a, b) for a one-character a
Replace(s, a, b) ==
  IF Len(s) = 0 THEN ""
  ELSE (IF Ch(s, 1) = a THEN b ELSE Ch(s, 1)) \o Replace(SubSeq(s, 2, Len(s)), a, b)

RECURSIVE LStrip(_)
LStrip(s) ==
  IF Len(s) > 0 /\ Ch(s, 1) = " " THEN LStrip(SubSeq(s, 2, Len(s))) ELSE s

RECURSIVE RStrip(_)
RStrip(s) ==
  IF Len(s) > 0 /\ Ch(s, Len(s)) = " " THEN RStrip(SubSeq(s, 1, Len(s) - 1)) ELSE s

\* s.strip()
Strip(s) == RStrip(LStrip(s))

\* the characters of the model in code-point order
Alphabet == " -./0123456789:@ABCDEFGHIJKLMNOPQRSTUVWXYZ_abcdefghijklmnopqrstuvwxyz{}"

CharCode(c) == Find(Alphabet, c)

RECURSIVE StrLess(_, _)
\* a < b as Python compares strings: by code point, a proper prefix first
StrLess(a, b) ==
  IF Len(b) = 0 THEN FALSE
  ELSE IF Len(a) = 0 THEN TRUE
  ELSE IF Ch(a, 1) = Ch(b, 1)
       THEN StrLess(SubSeq(a, 2, Len(a)), SubSeq(b, 2, Len(b)))
       ELSE CharCode(Ch(a, 1)) < CharCode(Ch(b, 1))

RECURSIVE Sorted(_)
\* sorted(S) for a set of strings
Sorted(S) ==
  IF S = {} THEN <<>>
  ELSE LET m == CHOOSE x \in S : \A y \in S \ {x} : StrLess(x, y)
       IN  <<m>> \o Sorted(S \ {m})

Digits == "0123456789"

RECURSIVE DigitsValue(_)
\* the number a string of decimal digits writes
DigitsValue(s) ==
  IF Len(s) = 0 THEN 0
  ELSE 10 * DigitsValue(SubSeq(s, 1, Len(s) - 1)) + Find(Digits, Ch(s, Len(s)))

RECURSIVE Pow10(_)
Pow10(n) == IF n = 0 THEN 1 ELSE 10 * Pow10(n - 1)

\* int(text), for text of decimal digits with surrounding blanks
ParseInt(text) == [num |-> DigitsValue(Strip(text)), den |-> 1]

\* float(text), for text of decimal digits with at most one '.'
ParseFloat(text) ==
  LET s == Strip(text)
      p == Find(s, ".")
  IN  IF p < 0 THEN [num |-> DigitsValue(s), den |-> 1]
      ELSE [num |-> DigitsValue(Prefix(s, p) \o SubSeq(s, p + 2, Len(s))),
            den |-> Pow10(Len(s) - p - 1)]

RECURSIVE Concat(_)
\* the concatenation of a sequence of sequences
Concat(ss) == IF ss = <<>> THEN <<>> ELSE Head(ss) \o Concat(Tail(ss))

\* x in xs, for a list xs
InList(x, xs) == \E i \in 1..Len(xs) : xs[i] = x


(***************************************************************************)
(* XML elements (xml.etree.ElementTree.Element): tag, attrib in document   *)
(* order, children, text.                                                  *)
(***************************************************************************)
\* element.attrib.get(k) / element.get(k)
AttrGet(element, k) ==
  IF \E i \in 1..Len(element.attrib) : element.attrib[i][1] = k
  THEN element.attrib[CHOOSE i \in 1..Len(element.attrib) : element.attrib[i][1] = k][2]
  ELSE NoneVal

\* re.match('\{.*\}', tag): the tag opens with '{' and holds a '}'
HasNamespace(tag) == Len(tag) > 0 /\ Ch(tag, 1) = "{" /\ RFind(tag, "}") > 0

\* m.group(0) of the greedy match; NoneVal where m is None (m.group raises)
get_namespace(element) ==
  IF HasNamespace(element.tag)
  THEN Prefix(element.tag, RFind(element.tag, "}"))
  ELSE NoneVal

\* group 2 of re.match('(\{.*\})?(.*)', tag)
get_short_tag(element) ==
  IF HasNamespace(element.tag)
  THEN SubSeq(element.tag, RFind(element.tag, "}") + 1, Len(element.tag))
  ELSE element.tag

\* tree.findall(path) for a path that is one qualified tag: the children so tagged
FindAll(tree, path) == SelectSeq(tree.kids, LAMBDA c : c.tag = path)

(***************************************************************************)
(* The metric lists and the category table.                                *)
(***************************************************************************)
DOOR_METRICS == <<"load">>
DOMAIN_METRICS == <<"event_queue_size", "thread_count">>
POOL_METRICS ==
  <<"heartbeat_seconds", "enabled", "read_only", "active", "queued",
    "total_bytes", "precious_bytes", "removable_bytes", "used_bytes", "free_bytes",
    "gap_bytes", "LRU_seconds", "break_even">>
POOLGROUP_METRICS ==
  <<"resilient", "total_bytes", "precious_bytes", "removable_bytes", "used_bytes",
    "free_bytes">>
LINK_METRICS ==
  <<"total_bytes", "precious_bytes", "removable_bytes", "used_bytes", "free_bytes",
    "cache", "read", "write", "p2p">>
LINKGROUP_METRICS ==
  <<"total_bytes", "reserved_bytes", "available_bytes", "used_bytes", "free_bytes">>

METRIC_GROUPS ==
  <<DOOR_METRICS, DOMAIN_METRICS, POOL_METRICS, POOLGROUP_METRICS, LINK_METRICS,
    LINKGROUP_METRICS>>

BYTES_METRICS ==
  { DropLast(Concat(METRIC_GROUPS)[i], 6) :
      i \in { j \in 1..Len(Concat(METRIC_GROUPS)) :
                EndsWith(Concat(METRIC_GROUPS)[j], "_bytes") } }

\* ExportTag.__init__; default is "None", "True" or "False"
ExportTag(name, prefix, default, include, exclude, init_func, filter_func) ==
  [name |-> name, prefix |-> prefix, default |-> default, include |-> include,
   exclude |-> exclude, init_func |-> init_func, filter_func |-> filter_func]

ExportTags ==
  << ExportTag("doors", "door", "False", DOOR_METRICS, <<>>, NoneVal, NoneVal),
     ExportTag("domains", "domain", "False", DOMAIN_METRICS, <<>>, "DomainInit", "DomainFilter"),
     ExportTag("pools", "pool", "False", POOL_METRICS, <<>>, NoneVal, NoneVal),
     ExportTag("poolgroups", "poolgroup", "False", POOLGROUP_METRICS, <<>>, NoneVal, NoneVal),
     ExportTag("links", "link", "False", LINK_METRICS, <<>>, NoneVal, NoneVal),
     ExportTag("linkgroups", "linkgroup", "False", LINKGROUP_METRICS, <<>>, NoneVal, NoneVal) >>

\* an ExportTag's `data` attribute: absent until collect_init assigns it
NoData == [set |-> FALSE, val |-> <<>>]

\* the kids of e with short tag t, in document order
KidsTagged(e, t) == SelectSeq(e.kids, LAMBDA c : get_short_tag(c) = t)

\* the cellrefs of one routing element
RoutingCells(routing) ==
  Concat([i \in 1..Len(KidsTagged(routing, "local")) |->
            [j \in 1..Len(KidsTagged(KidsTagged(routing, "local")[i], "cellref")) |->
               <<"cell_name",
                 AttrGet(KidsTagged(KidsTagged(routing, "local")[i], "cellref")[j], "name")>>]])

DomainInit(element) ==
  Concat([r \in 1..Len(KidsTagged(element, "routing")) |->
            RoutingCells(KidsTagged(element, "routing")[r])])

DomainFilter(data, labels) == \E i \in 1..Len(data) : InList(data[i], labels)

\* an init that ran once per category and kept `data` afterwards
collect_init_once(export, data, element) ==
  IF export.init_func # NoneVal /\ ~data.set
  THEN [set |-> TRUE, val |-> DomainInit(element)]
  ELSE data

\* collect_init: the value of export.data after the call
collect_init(export, data, element) ==
  IF export.init_func # NoneVal
  THEN [set |-> TRUE, val |-> DomainInit(element)]
  ELSE data

\* a filter that tried the exclude list before the include list
collect_metric_exclude_first(export, data, name, labels) ==
  IF export.default = "None" THEN [raised |-> FALSE, ok |-> TRUE]
  ELSE LET ok == IF InList(name, export.exclude) THEN FALSE
                 ELSE IF InList(name, export.include) THEN TRUE
                 ELSE export.default = "True"
       IN  IF ok /\ export.filter_func # NoneVal
           THEN IF data.set
                THEN [raised |-> FALSE, ok |-> DomainFilter(data.val, labels)]
                ELSE [raised |-> TRUE, ok |-> FALSE]
           ELSE [raised |-> FALSE, ok |-> ok]

\* collect_metric: [raised, ok]; reading an unassigned self.data raises
\* AttributeError
collect_metric(export, data, name, labels) ==
  IF export.default = "None" THEN [raised |-> FALSE, ok |-> TRUE]
  ELSE LET ok == IF InList(name, export.include) THEN TRUE
                 ELSE IF InList(name, export.exclude) THEN FALSE
                 ELSE export.default = "True"
       IN  IF ok /\ export.filter_func # NoneVal
           THEN IF data.set
                THEN [raised |-> FALSE, ok |-> DomainFilter(data.val, labels)]
                ELSE [raised |-> TRUE, ok |-> FALSE]
           ELSE [raised |-> FALSE, ok |-> ok]

\* _metric_transform: the output name and the divisor of the scale function
metric_transform(name) ==
  IF name \in BYTES_METRICS THEN [name |-> name \o "_bytes", div |-> 1]
  ELSE IF name = "last-heartbeat" THEN [name |-> "heartbeat_seconds", div |-> 1000]
  ELSE [name |-> Replace(name, "-", "_"), div |-> 1]

\* transform(value)
Scale(value, div) == [num |-> value.num, den |-> value.den * div]

\* the coercion of a leaf text by type (lines 181-189)
Coerce(type, text) ==
  IF type = "boolean"
  THEN (IF Strip(text) = "true" THEN [num |-> 1, den |-> 1] ELSE [num |-> 0, den |-> 1])
  ELSE IF type = "float" THEN ParseFloat(text)
  ELSE ParseInt(text)

(***************************************************************************)
(* The metric registry self._metrics: a dict, kept as the list of its      *)
(* families in insertion order.  A family is prometheus_client's            *)
(* GaugeMetricFamily: name, label names, samples.                          *)
(***************************************************************************)
HasKey(metrics, name) == \E i \in 1..Len(metrics) : metrics[i].name = name

KeyIndex(metrics, name) == CHOOSE i \in 1..Len(metrics) : metrics[i].name = name

Keys(metrics) == { metrics[i].name : i \in 1..Len(metrics) }

GaugeMetricFamily(name, labelnames) ==
  [name |-> name, labelnames |-> labelnames, samples |-> <<>>]

\* d[k] = v on a dict kept as a list of pairs
DictSet(d, k, v) ==
  IF \E i \in 1..Len(d) : d[i][1] = k
  THEN [i \in 1..Len(d) |-> IF d[i][1] = k THEN <<k, v>> ELSE d[i]]
  ELSE Append(d, <<k, v>>)

RECURSIVE DictZip(_, _)
\* dict(zip(names, values)): zip stops at the shorter of the two
DictZip(names, values) ==
  IF names = <<>> \/ values = <<>> THEN <<>>
  ELSE LET n == IF Len(names) < Len(values) THEN Len(names) ELSE Len(values)
       IN  DictSet(DictZip(SubSeq(names, 1, n - 1), SubSeq(values, 1, n - 1)),
                   names[n], values[n])

\* GaugeMetricFamily.add_metric(labels, value)
add_metric(family, values, value) ==
  [family EXCEPT !.samples =
     Append(@, [labels |-> DictZip(family.labelnames, values), value |-> value])]

LabelNames(labels) == [i \in 1..Len(labels) |-> labels[i][1]]
LabelValues(labels) == [i \in 1..Len(labels) |-> labels[i][2]]

\* lines 191-193 and 198-201: create the family on first use, then add
Observe(metrics, metric_name, labels, value) ==
  LET m1 == IF ~HasKey(metrics, metric_name)
            THEN Append(metrics, GaugeMetricFamily(metric_name, LabelNames(labels)))
            ELSE metrics
  IN  [m1 EXCEPT ![KeyIndex(m1, metric_name)] = add_metric(@, LabelValues(labels), value)]


(***************************************************************************)
(* Snapshot documents the info service may send.  A document is the root   *)
(* element ET.fromstring returns.                                          *)
(***************************************************************************)
\* a tag in the info namespace
N(t) == "{http://www.dcache.org/2008/01/Info}" \o t

El(tag, attrib, kids) == [tag |-> N(tag), attrib |-> attrib, kids |-> kids, text |-> NoneVal]

Metric(name, type, text) ==
  [tag |-> N("metric"), attrib |-> << <<"name", name>>, <<"type", type>> >>,
   kids |-> <<>>, text |-> text]

\* one pool: every scalar type, a rejected name, a non-scalar type, a group
DocPools ==
  El("dCache", <<>>, <<
    El("pools", <<>>, <<
      El("pool", << <<"name", "pool1@qualifier">> >>, <<
        Metric("used-bytes", "integer", "1024"),
        Metric("last-heartbeat", "integer", "1500"),
        Metric("enabled", "boolean", " true "),
        Metric("read-only", "boolean", "false"),
        Metric("enabled", "string", "true"),
        Metric("poolmode", "integer", "7"),
        El("space", <<>>, <<
          Metric("used", "integer", "2048"),
          Metric("break-even", "float", "0.5") >>) >>) >>) >>)

\* one pool whose queue metrics are reached under differently attributed ancestors
DocQueues ==
  El("dCache", <<>>, <<
    El("pools", <<>>, <<
      El("pool", << <<"name", "pool2">> >>, <<
        Metric("queued", "integer", "4"),
        El("queues", <<>>, <<
          El("queue", << <<"type", "store">> >>, <<
            Metric("active", "integer", "3"),
            Metric("queued", "integer", "5") >>),
          El("named-queues", <<>>, <<
            El("queue", << <<"name", "wan">> >>, <<
              Metric("active", "integer", "1") >>) >>) >>) >>) >>) >>)

\* three domains with different routed cells
DocDomains ==
  El("dCache", <<>>, <<
    El("domains", <<>>, <<
      El("domain", << <<"name", "dA@host">> >>, <<
        El("cells", <<>>, <<
          El("cell", << <<"name", "cellA">> >>, <<
            Metric("event-queue-size", "integer", "2"),
            Metric("thread-count", "integer", "9") >>),
          El("cell", << <<"name", "cellB">> >>, <<
            Metric("event-queue-size", "integer", "5") >>) >>),
        El("routing", <<>>, <<
          El("local", <<>>, << El("cellref", << <<"name", "cellA">> >>, <<>>) >>) >>) >>),
      El("domain", << <<"name", "dB">> >>, <<
        El("routing", <<>>, <<
          El("local", <<>>, << El("cellref", << <<"name", "cellB">> >>, <<>>) >>),
          El("named", <<>>, << El("cellref", << <<"name", "cellA">> >>, <<>>) >>) >>),
        El("cells", <<>>, <<
          El("cell", << <<"name", "cellA">> >>, <<
            Metric("thread-count", "integer", "4") >>),
          El("cell", << <<"name", "cellB">> >>, <<
            Metric("thread-count", "integer", "6") >>) >>) >>),
      El("domain", << <<"name", "dC">> >>, <<
        El("cells", <<>>, <<
          El("cell", << <<"name", "cellA">> >>, <<
            Metric("event-queue-size", "integer", "1") >>) >>) >>) >>) >>)

\* a pool group and a link with pool references
DocLinks ==
  El("dCache", <<>>, <<
    El("links", <<>>, <<
      El("link", << <<"name", "link1">> >>, <<
        El("pools", <<>>, <<
          El("poolref", << <<"name", "pool1">> >>, << Metric("read", "integer", "1") >>),
          El("poolref", << <<"name", "pool2">> >>, <<>>) >>),
        El("prefs", <<>>, <<
          Metric("read", "integer", "10"),
          Metric("cache", "integer", "0") >>),
        El("unitgroups", <<>>, <<
          El("unitgroup", << <<"name", "ug1">> >>, <<
            El("poolref", << <<"name", "pool3">> >>, <<>>) >>) >>) >>) >>),
    El("poolgroups", <<>>, <<
      El("poolgroup", << <<"name", "pg1">> >>, <<
        El("poolref", << <<"name", "pool1">> >>, <<>>),
        Metric("resilient", "boolean", "true"),
        El("space", <<>>, << Metric("total", "integer", "100") >>) >>) >>) >>)

\* a link group, a door, and a value node that has a child
DocLinkgroups ==
  El("dCache", <<>>, <<
    El("linkgroups", <<>>, <<
      El("linkgroup", << <<"lgid", "7">>, <<"name", "lg@site">> >>, <<
        El("space", <<>>, <<
          [tag |-> N("metric"),
           attrib |-> << <<"name", "reserved">>, <<"type", "integer">> >>,
           kids |-> << Metric("used", "integer", "3") >>,
           text |-> "12"] >>) >>) >>),
    El("doors", <<>>, <<
      El("door", << <<"name", "dcap-1@doorDomain">> >>, <<
        Metric("load", "float", "0.25") >>) >>) >>)

\* a root without a namespace
DocNoNamespace ==
  [tag |-> "dCache", attrib |-> <<>>, text |-> NoneVal,
   kids |-> << [tag |-> "pools", attrib |-> <<>>, text |-> NoneVal, kids |-> <<>>] >>]

\* containers that are empty or in another namespace
DocEmpty ==
  El("dCache", <<>>, <<
    El("doors", <<>>, <<>>),
    [tag |-> "{urn:other}pools", attrib |-> <<>>, text |-> NoneVal,
     kids |-> << El("pool", << <<"name", "pool9">> >>, <<
                   Metric("used", "integer", "1") >>) >>] >>)

\* two small domains, the second without children
DocSmallDomains ==
  El("dCache", <<>>, <<
    El("domains", <<>>, <<
      El("domain", << <<"name", "d1">> >>, <<
        El("cell", << <<"name", "cellA">> >>, <<
          Metric("thread-count", "integer", "8") >>),
        El("routing", <<>>, <<
          El("local", <<>>, << El("cellref", << <<"name", "cellA">> >>, <<>>) >>) >>) >>),
      El("domain", << <<"name", "d2">> >>, <<>>) >>) >>)

Docs ==
  <<DocPools, DocQueues, DocDomains, DocLinks, DocLinkgroups, DocNoNamespace, DocEmpty,
    DocSmallDomains>>

DocIds == 1..Len(Docs)

\* the document served while scrapes overlap
ConcDocIds == { i \in DocIds : Docs[i] = DocSmallDomains }

\* the --cluster default
Cluster == "dcache_cluster"


(***************************************************************************)
(* State.  One DcacheCollector is registered; the metrics server runs      *)
(* collect() in the thread of each request.                                *)
(*   tree, ns, metrics : self._tree (a document id, 0 for None), self._ns, *)
(*                       self._metrics                                     *)
(*   data              : the `data` attribute of each entry of ExportTags  *)
(*   th                : each thread's position and local variables        *)
(*   memo              : history: the document and result of some earlier  *)
(*                       pass that ran while no other pass was running     *)
(*   ft                : the arguments and result of one call of           *)
(*                       ExportTag.collect_metric (FilterSpec only)        *)
(***************************************************************************)
VARIABLES tree, ns, metrics, data, th, memo, ft

vars == <<tree, ns, metrics, data, th, memo, ft>>

Threads == 1..NThreads

\* the chunks sock.recv may return (their bytes are not modelled)
Chunks == {"a", "b"}

One == [num |-> 1, den |-> 1]

Idle ==
  [pc |-> "idle", d |-> "", nchunks |-> 0, doc |-> 0, ei |-> 0, cdoc |-> 0, ck |-> 0,
   mi |-> 0, ci |-> 0, labels |-> <<>>, stack |-> <<>>, keys |-> <<>>, out |-> <<>>,
   exc |-> NoneVal, refused |-> FALSE, solo |-> TRUE]

NoMemo == [doc |-> 0, out |-> <<>>, exc |-> NoneVal]

NoCall == [phase |-> "off"]

Init ==
  /\ tree = 0
  /\ ns = NoneVal
  /\ metrics = <<>>
  /\ data = [i \in 1..Len(ExportTags) |-> NoData]
  /\ th = [t \in Threads |-> Idle]
  /\ memo = NoMemo
  /\ ft = NoCall

RECURSIVE NodeAt(_, _)
\* the descendant of e reached by the child indices of path
NodeAt(e, path) ==
  IF path = <<>> THEN e ELSE NodeAt(e.kids[Head(path)], Tail(path))

\* index of the first child of tree tagged path, 0 when findall returns []
FindFirst(tree_, path) ==
  IF FindAll(tree_, path) = <<>> THEN 0
  ELSE CHOOSE i \in 1..Len(tree_.kids) :
         /\ tree_.kids[i].tag = path
         /\ \A j \in 1..(i-1) : tree_.kids[j].tag # path

\* the member a thread is walking: elements[0][mi]
Member(s) == Docs[s.cdoc].kids[s.ck].kids[s.mi]

\* an exception leaves collect(): the generator ends having raised
Raise(s, name) == [s EXCEPT !.pc = "done", !.exc = name]

\* a scrape request arrives and its thread calls collect()
Begin(t) ==
  /\ th[t].pc = "idle"
  /\ th' = [u \in Threads |->
              IF u = t
              THEN [Idle EXCEPT !.pc = "connect",
                                !.solo = \A v \in Threads \ {t} : th[v].pc = "idle"]
              ELSE IF th[u].pc = "idle" THEN th[u]
              ELSE [th[u] EXCEPT !.solo = FALSE]]
  /\ UNCHANGED <<tree, ns, metrics, data, memo, ft>>

\* a handler that swallowed the refusal and went on to emit self._metrics
OnRefusedEmitKept(s) == [s EXCEPT !.pc = "sort", !.refused = TRUE]

\* lines 236-237: ConnectionRefusedError ends the generator without a yield
OnRefused(s) == [s EXCEPT !.pc = "done", !.refused = TRUE]

\* sock.connect (line 153)
Connect(t) ==
  /\ th[t].pc = "connect"
  /\ \/ th' = [th EXCEPT ![t] = OnRefused(@)]
     \/ th' = [th EXCEPT ![t] = Raise(@, "OSError")]
     \/ th' = [th EXCEPT ![t] = [@ EXCEPT !.pc = "recv"]]
  /\ UNCHANGED <<tree, ns, metrics, data, memo, ft>>

\* one turn of the loop of lines 155-159, after settimeout(10)
Recv(t) ==
  /\ th[t].pc = "recv"
  /\ \/ \E c \in Chunks :
          th' = [th EXCEPT ![t] =
                   [@ EXCEPT !.d = c,
                             !.nchunks = IF @ < MaxChunks THEN @ + 1 ELSE MaxChunks]]
     \/ th' = [th EXCEPT ![t] = [@ EXCEPT !.d = "", !.pc = "parse"]]
     \/ th' = [th EXCEPT ![t] = Raise([@ EXCEPT !.d = "", !.nchunks = 0], "socket.timeout")]
  /\ UNCHANGED <<tree, ns, metrics, data, memo, ft>>

\* ET.fromstring(text), the return of _get_xml_tree and the assignment of line 231;
\* D: the documents the info service may have sent
Parse(t, D) ==
  /\ th[t].pc = "parse"
  /\ \/ /\ th[t].nchunks > 0
        /\ \E doc \in D :
             /\ tree' = doc
             /\ th' = [th EXCEPT ![t] = [@ EXCEPT !.pc = "ns", !.doc = doc, !.nchunks = 0]]
     \/ /\ th' = [th EXCEPT ![t] = Raise([@ EXCEPT !.nchunks = 0], "ParseError")]
        /\ UNCHANGED tree
  /\ UNCHANGED <<ns, metrics, data, memo, ft>>

\* line 232
GetNamespace(t) ==
  /\ th[t].pc = "ns"
  /\ IF get_namespace(Docs[tree]) = NoneVal
     THEN /\ th' = [th EXCEPT ![t] = Raise(@, "AttributeError")]
          /\ UNCHANGED ns
     ELSE /\ ns' = get_namespace(Docs[tree])
          /\ th' = [th EXCEPT ![t] = [@ EXCEPT !.pc = "reset"]]
  /\ UNCHANGED <<tree, metrics, data, memo, ft>>

\* a pass that kept the registry of the pass before
ResetMetricsKept(m) == m

\* line 222
ResetMetrics(m) == <<>>

Reset(t) ==
  /\ th[t].pc = "reset"
  /\ metrics' = ResetMetrics(metrics)
  /\ th' = [th EXCEPT ![t] = [@ EXCEPT !.pc = "find", !.ei = 1]]
  /\ UNCHANGED <<tree, ns, data, memo, ft>>

\* the thread's state once the members of export s.ei are done
NextExport(s) ==
  IF s.ei < Len(ExportTags)
  THEN [s EXCEPT !.pc = "find", !.ei = @ + 1, !.mi = 0, !.ci = 0, !.labels = <<>>]
  ELSE [s EXCEPT !.pc = "sort", !.mi = 0, !.ci = 0, !.labels = <<>>]

\* lines 224-226: findall on self._tree; the members of elements[0] are iterated
FindContainer(t) ==
  /\ th[t].pc = "find"
  /\ LET k == FindFirst(Docs[tree], ns \o ExportTags[th[t].ei].name)
     IN  IF k = 0 \/ Docs[tree].kids[k].kids = <<>>
         THEN th' = [th EXCEPT ![t] = NextExport(@)]
         ELSE th' = [th EXCEPT ![t] =
                       [@ EXCEPT !.pc = "init", !.cdoc = tree, !.ck = k, !.mi = 1]]
  /\ UNCHANGED <<tree, ns, metrics, data, memo, ft>>

\* lines 211-216: the identity of a member
MemberName(element) ==
  IF get_short_tag(element) = "linkgroup" THEN AttrGet(element, "lgid")
  ELSE IF Contains(AttrGet(element, "name"), "@")
       THEN Prefix(AttrGet(element, "name"), Find(AttrGet(element, "name"), "@"))
       ELSE AttrGet(element, "name")

\* line 217
SeedLabels(element, export) ==
  << <<"dcache_cluster", Cluster>>, <<export.prefix, MemberName(element)>> >>

\* lines 210-217 of _collect_metrics_set
collect_metrics_set(t) ==
  /\ th[t].pc = "init"
  /\ data' = [data EXCEPT ![th[t].ei] =
                collect_init(ExportTags[th[t].ei], @, Member(th[t]))]
  /\ IF /\ get_short_tag(Member(th[t])) # "linkgroup"
        /\ AttrGet(Member(th[t]), "name") = NoneVal
     THEN th' = [th EXCEPT ![t] = Raise(@, "TypeError")]
     ELSE th' = [th EXCEPT ![t] =
                   [@ EXCEPT !.pc = "walk", !.ci = 1, !.stack = <<>>,
                             !.labels = SeedLabels(Member(th[t]), ExportTags[th[t].ei])]]
  /\ UNCHANGED <<tree, ns, metrics, memo, ft>>


(***************************************************************************)
(* _collect_metric.  The recursion is run with an explicit list of pending *)
(* calls: th[t].stack holds the calls of lines 203-207 not yet made, each  *)
(* with the path of its element below the member and the list `l` built    *)
(* for it; the calls of lines 218-219 are made in turn for child ci of the *)
(* member, all with the one list th[t].labels.                             *)
(***************************************************************************)
\* lines 176-193: the registry after the value branch, and whether it raised
MetricNode(element, export, labels, metrics_, data_) ==
  LET type == AttrGet(element, "type")
      tr   == metric_transform(AttrGet(element, "name"))
      f    == collect_metric(export, data_, tr.name, labels)
  IN  IF f.raised THEN [metrics |-> metrics_, raised |-> TRUE]
      ELSE IF f.ok /\ type \in {"float", "integer", "boolean"}
      THEN [metrics |-> Observe(metrics_, "dcache_" \o export.prefix \o "_" \o tr.name,
                                labels, Scale(Coerce(type, element.text), tr.div)),
            raised |-> FALSE]
      ELSE [metrics |-> metrics_, raised |-> FALSE]

\* lines 196-197: the list the relation observation is made with
PoolrefLabels(element, labels) == Append(labels, <<"pool", AttrGet(element, "name")>>)

\* what the relation branch does to no copy of the list
PoolrefCallerLabelsAliased(element, labels) ==
  Append(labels, <<"pool", AttrGet(element, "name")>>)

\* line 196: the append goes to a copy, the caller's list stays as it was
PoolrefCallerLabels(element, labels) == labels

\* lines 204-206: the list `l` the children of element are visited with
ChildLabels(element, labels) ==
  labels \o [i \in 1..Len(element.attrib) |->
               <<get_short_tag(element) \o "_" \o element.attrib[i][1],
                 element.attrib[i][2]>>]

\* one call of _collect_metric without the calls it makes: the registry, whether
\* it raised, whether lines 203-207 run, and the caller's list afterwards
collect_metric_node(element, export, labels, metrics_, data_) ==
  LET tag == get_short_tag(element)
      m   == IF tag = "metric" THEN MetricNode(element, export, labels, metrics_, data_)
             ELSE [metrics |-> metrics_, raised |-> FALSE]
  IN  IF m.raised
      THEN [metrics |-> metrics_, raised |-> TRUE, recurse |-> FALSE, caller |-> labels]
      ELSE IF tag = "poolref"
      THEN [metrics |-> Observe(m.metrics, "dcache_" \o export.prefix \o "_pool_rel",
                                PoolrefLabels(element, labels), One),
            raised |-> FALSE, recurse |-> FALSE,
            caller |-> PoolrefCallerLabels(element, labels)]
      ELSE [metrics |-> m.metrics, raised |-> FALSE, recurse |-> TRUE, caller |-> labels]

\* a call is pending: one on the stack, or the next child of the member
HasFrame(s) == s.stack # <<>> \/ s.ci <= Len(Member(s).kids)

\* the pending call made next
Frame(s) ==
  IF s.stack # <<>> THEN Head(s.stack) ELSE [path |-> <<s.ci>>, labels |-> s.labels]

\* the calls of lines 203-207 for the children of the element at path
ChildFrames(element, path, labels) ==
  [i \in 1..Len(element.kids) |->
     [path |-> Append(path, i), labels |-> ChildLabels(element, labels)]]

\* one call of _collect_metric
Visit(t) ==
  /\ th[t].pc = "walk"
  /\ HasFrame(th[t])
  /\ LET s       == th[t]
         fr      == Frame(s)
         element == NodeAt(Member(s), fr.path)
         r       == collect_metric_node(element, ExportTags[s.ei], fr.labels, metrics,
                                        data[s.ei])
         rest    == IF s.stack # <<>> THEN Tail(s.stack) ELSE <<>>
         kids    == IF r.recurse THEN ChildFrames(element, fr.path, fr.labels) ELSE <<>>
     IN  IF r.raised
         THEN /\ th' = [th EXCEPT ![t] = Raise(@, "AttributeError")]
              /\ UNCHANGED metrics
         ELSE /\ metrics' = r.metrics
              /\ th' = [th EXCEPT ![t] =
                          [@ EXCEPT !.stack = kids \o rest,
                                    !.ci = IF s.stack = <<>> THEN @ + 1 ELSE @,
                                    !.labels = IF s.stack = <<>> THEN r.caller ELSE @]]
  /\ UNCHANGED <<tree, ns, data, memo, ft>>

\* the loop of lines 218-219 ends; the loop of lines 226-227 goes on
MemberDone(t) ==
  /\ th[t].pc = "walk"
  /\ ~HasFrame(th[t])
  /\ IF th[t].mi < Len(Docs[th[t].cdoc].kids[th[t].ck].kids)
     THEN th' = [th EXCEPT ![t] =
                   [@ EXCEPT !.pc = "init", !.mi = @ + 1, !.ci = 0, !.labels = <<>>]]
     ELSE th' = [th EXCEPT ![t] = NextExport(@)]
  /\ UNCHANGED <<tree, ns, metrics, data, memo, ft>>

\* line 234: sorted(self._metrics.keys())
SortKeys(t) ==
  /\ th[t].pc = "sort"
  /\ th' = [th EXCEPT ![t] = [@ EXCEPT !.pc = "emit", !.keys = Sorted(Keys(metrics))]]
  /\ UNCHANGED <<tree, ns, metrics, data, memo, ft>>

\* line 235: one family is yielded and rendered by the caller
Yield(t) ==
  /\ th[t].pc = "emit"
  /\ IF th[t].keys = <<>>
     THEN th' = [th EXCEPT ![t] = [@ EXCEPT !.pc = "done"]]
     ELSE IF HasKey(metrics, Head(th[t].keys))
     THEN th' = [th EXCEPT ![t] =
                   [@ EXCEPT !.keys = Tail(@),
                             !.out = Append(@, metrics[KeyIndex(metrics, Head(th[t].keys))])]]
     ELSE th' = [th EXCEPT ![t] = Raise(@, "KeyError")]
  /\ UNCHANGED <<tree, ns, metrics, data, memo, ft>>

\* the request is answered; a pass that ran alone may be remembered
Finish(t) ==
  /\ th[t].pc = "done"
  /\ th' = [th EXCEPT ![t] = Idle]
  /\ \/ UNCHANGED memo
     \/ /\ th[t].solo
        /\ th[t].doc # 0
        /\ memo' = [doc |-> th[t].doc, out |-> th[t].out, exc |-> th[t].exc]
  /\ UNCHANGED <<tree, ns, metrics, data, ft>>

Step(t, D) ==
  \/ Begin(t)
  \/ Connect(t)
  \/ Recv(t)
  \/ Parse(t, D)
  \/ GetNamespace(t)
  \/ Reset(t)
  \/ FindContainer(t)
  \/ collect_metrics_set(t)
  \/ Visit(t)
  \/ MemberDone(t)
  \/ SortKeys(t)
  \/ Yield(t)
  \/ Finish(t)

\* scrapes that do not overlap: one thread serves them in turn
Next == Step(1, DocIds)

Spec == Init /\ [][Next]_vars

\* scrapes served by all threads at once
ConcNext == \E t \in Threads : Step(t, ConcDocIds)

ConcSpec == Init /\ [][ConcNext]_vars

\* a running thread goes on running
LiveSpec == Init /\ [][Next]_vars /\ WF_vars(Next)

(***************************************************************************)
(* ExportTag.collect_metric on its own: any ExportTag the constructor      *)
(* builds, any `data`, field name and label set.                           *)
(***************************************************************************)
FilterExports ==
  { ExportTags[i] : i \in 1..Len(ExportTags) } \cup
  { ExportTag("tests", "test", d, inc, exc, f[1], f[2]) :
      d \in {"None", "True", "False"},
      inc \in {<<>>, <<"load">>},
      exc \in {<<>>, <<"load">>, <<"active">>},
      f \in { <<NoneVal, NoneVal>>, <<"DomainInit", "DomainFilter">> } }

FilterNames == {"load", "active", "thread_count"}

FilterData ==
  { NoData,
    [set |-> TRUE, val |-> <<>>],
    [set |-> TRUE, val |-> << <<"cell_name", "cellA">> >>],
    [set |-> TRUE, val |-> << <<"cell_name", "cellA">>, <<"cell_name", "cellB">> >>] }

FilterLabels ==
  { <<>>,
    << <<"dcache_cluster", Cluster>>, <<"domain", "dA">> >>,
    << <<"dcache_cluster", Cluster>>, <<"domain", "dA">>, <<"cell_name", "cellA">> >>,
    << <<"dcache_cluster", Cluster>>, <<"domain", "dA">>, <<"cell_name", "cellB">> >>,
    << <<"dcache_cluster", Cluster>>, <<"domain", "dA">>, <<"cell_name", "cellC">> >>,
    << <<"dcache_cluster", Cluster>>, <<"domain", "dA">>, <<"cell_type", "cellA">> >> }

FilterInit ==
  /\ tree = 0
  /\ ns = NoneVal
  /\ metrics = <<>>
  /\ data = [i \in 1..Len(ExportTags) |-> NoData]
  /\ th = [t \in Threads |-> Idle]
  /\ memo = NoMemo
  /\ \E e \in FilterExports, n \in FilterNames, dt \in FilterData, l \in FilterLabels :
       ft = [phase |-> "call", export |-> e, name |-> n, data |-> dt, labels |-> l,
             res |-> [raised |-> FALSE, ok |-> FALSE]]

\* export.collect_metric(name, labels) with export.data as given
CallFilter ==
  /\ ft.phase = "call"
  /\ ft' = [ft EXCEPT !.phase = "ret",
                       !.res = collect_metric(ft.export, ft.data, ft.name, ft.labels)]
  /\ UNCHANGED <<tree, ns, metrics, data, th, memo>>

FilterSpec == FilterInit /\ [][CallFilter]_vars


(***************************************************************************)
(* Properties.                                                             *)
(***************************************************************************)
\* the families of a pass's output are in ascending order of name
Ascending(out) ==
  \A i \in 1..Len(out) : \A j \in (i+1)..Len(out) : StrLess(out[i].name, out[j].name)

\* C3: a pass whose connection was refused yields no family and raises nothing,
\* whatever the registry holds from an earlier pass.
C3_RefusedYieldsNothing ==
  \A t \in Threads :
    th[t].refused => /\ th[t].out = <<>>
                     /\ th[t].exc = NoneVal
                     /\ th[t].pc = "done"

\* a refused pass has ended while the registry still holds an earlier pass's families
C3_Witness ==
  /\ th[1].refused
  /\ th[1].pc = "done"
  /\ Len(metrics) >= 2
  /\ th[1].out = <<>>

\* the name of a member up to its first '@'
UpToAt(name) ==
  IF \E i \in 1..Len(name) : Ch(name, i) = "@"
  THEN SubSeq(name, 1, (CHOOSE i \in 1..Len(name) :
                          Ch(name, i) = "@" /\ \A j \in 1..(i-1) : Ch(name, j) # "@") - 1)
  ELSE name

\* the two seed labels of a member of a category with prefix p
ExpectedSeed(member, p) ==
  << <<"dcache_cluster", Cluster>>,
     <<p, IF get_short_tag(member) = "linkgroup" THEN AttrGet(member, "lgid")
          ELSE UpToAt(AttrGet(member, "name"))>> >>

RECURSIVE AncestorLabels(_, _)
\* one ("<tag>_<attr>", value) label per attribute of each element met from e
\* (included) along path, the element the path ends at excluded
AncestorLabels(e, path) ==
  IF path = <<>> THEN <<>>
  ELSE [i \in 1..Len(e.attrib) |->
          <<get_short_tag(e) \o "_" \o e.attrib[i][1], e.attrib[i][2]>>]
       \o AncestorLabels(e.kids[Head(path)], Tail(path))

\* the label set of the element at path below member: the seed, then the labels of
\* its ancestors strictly below the member
PathLabels(member, p, path) ==
  ExpectedSeed(member, p) \o AncestorLabels(member.kids[Head(path)], Tail(path))

\* C4: the list a member's children are visited with stays the two seed labels
\* over every call, and every pending call carries exactly the seed followed by
\* the attribute labels of its element's ancestors below the member, in path
\* order.
C4_LabelsArePathLabels ==
  \A t \in Threads :
    th[t].pc = "walk" =>
      /\ th[t].labels = ExpectedSeed(Member(th[t]), ExportTags[th[t].ei].prefix)
      /\ \A i \in 1..Len(th[t].stack) :
           th[t].stack[i].labels =
             PathLabels(Member(th[t]), ExportTags[th[t].ei].prefix, th[t].stack[i].path)

\* after relation references of the link were visited, a call is pending for an
\* element three levels down whose label set has one ancestor label
C4_Witness ==
  /\ th[1].pc = "walk"
  /\ HasKey(metrics, "dcache_link_pool_rel")
  /\ th[1].ci > 1
  /\ \E i \in 1..Len(th[1].stack) :
       /\ Len(th[1].stack[i].path) = 3
       /\ th[1].stack[i].labels =
            << <<"dcache_cluster", Cluster>>, <<"link", "link1">>,
               <<"unitgroup_name", "ug1">> >>

\* the elements of a list
Range(seq) == { seq[i] : i \in 1..Len(seq) }

\* the cell names referenced under the member's own routing/local sub-path
LocalCellNames(member) ==
  { AttrGet(c, "name") :
      c \in UNION { { x \in Range(l.kids) : get_short_tag(x) = "cellref" } :
              l \in UNION { { y \in Range(r.kids) : get_short_tag(y) = "local" } :
                      r \in { z \in Range(member.kids) : get_short_tag(z) = "routing" } } } }

\* thread t is about to visit a value node of a domains member whose transformed
\* name is in the domains include list
DomainFieldVisit(t) ==
  /\ th[t].pc = "walk"
  /\ HasFrame(th[t])
  /\ ExportTags[th[t].ei].name = "domains"
  /\ get_short_tag(NodeAt(Member(th[t]), Frame(th[t]).path)) = "metric"
  /\ AttrGet(NodeAt(Member(th[t]), Frame(th[t]).path), "type")
       \in {"float", "integer", "boolean"}
  /\ Replace(AttrGet(NodeAt(Member(th[t]), Frame(th[t]).path), "name"), "-", "_")
       \in {"event_queue_size", "thread_count"}

\* while a domains member M is walked, `data` is the ("cell_name", c) list of M's
\* own routing/local cellrefs
C6_DataIsOwn ==
  \A t \in Threads :
    (th[t].pc = "walk" /\ ExportTags[th[t].ei].name = "domains") =>
      /\ data[th[t].ei].set
      /\ { data[th[t].ei].val[i] : i \in 1..Len(data[th[t].ei].val) }
           = { <<"cell_name", c>> : c \in LocalCellNames(Member(th[t])) }

\* an included field is observed iff its label set holds ("cell_name", c) for a
\* cell c that M routes locally
C6_EmittedIffRouted ==
  \A t \in Threads :
    (DomainFieldVisit(t) /\ th'[t] # th[t] /\ th'[t].pc = "walk") =>
      ((metrics' # metrics) <=>
         \E c \in LocalCellNames(Member(th[t])) :
           InList(<<"cell_name", c>>, Frame(th[t]).labels))

\* C6: in a pass over a domains container, the filter of a value node under
\* member M sees the cell list of M itself, and an included field is emitted
\* under M iff its label set names a cell M routes locally.
C6_DomainFilterUsesOwnCells == []C6_DataIsOwn /\ [][C6_EmittedIffRouted]_vars

\* the second domain of DocDomains is walked with its own list (cellB), the first
\* having emitted event_queue_size for cellA only
C6_Witness ==
  /\ th[1].pc = "walk"
  /\ th[1].cdoc # 0
  /\ Docs[th[1].cdoc] = DocDomains
  /\ th[1].mi = 2
  /\ data[2].val = << <<"cell_name", "cellB">> >>
  /\ HasKey(metrics, "dcache_domain_event_queue_size")
  /\ Len(metrics[KeyIndex(metrics, "dcache_domain_event_queue_size")].samples) = 1
  /\ metrics[KeyIndex(metrics, "dcache_domain_event_queue_size")].samples[1].labels[3]
       = <<"cell_name", "cellA">>
  /\ HasKey(metrics, "dcache_domain_thread_count")

\* C8: a pass over a document emits what an earlier pass over the same document
\* emitted (families, order, label names, observations), whatever was processed in
\* between, and emits in ascending order of metric name.
C8_SameSnapshotSameOutput ==
  \A t \in Threads :
    th[t].pc = "done" =>
      /\ Ascending(th[t].out)
      /\ (th[t].doc # 0 /\ memo.doc = th[t].doc) =>
           (th[t].out = memo.out /\ th[t].exc = memo.exc)

\* a second pass over DocDomains has ended with the output remembered for it
C8_Witness ==
  /\ th[1].pc = "done"
  /\ memo.doc # 0
  /\ memo.doc = th[1].doc
  /\ Docs[memo.doc] = DocDomains
  /\ Len(th[1].out) = 2
  /\ th[1].out = memo.out


\* the tentative answer of the name lists: include, else exclude, else the default
Tentative(export, name) ==
  IF name \in Range(export.include) THEN TRUE
  ELSE IF name \in Range(export.exclude) THEN FALSE
  ELSE export.default = "True"

\* C5: collect_metric answers true when the default is unset; else the tentative
\* answer of the lists (include first); a tentative true with a filter function
\* becomes "some pair of data is in the label set" (the filter reads data, so it
\* raises where data was never assigned); a tentative false is false and the
\* filter is not consulted (nothing is raised even where data was never assigned).
C5_ShouldEmit ==
  ft.phase = "ret" =>
    IF ft.export.default = "None"
    THEN ft.res = [raised |-> FALSE, ok |-> TRUE]
    ELSE IF ~Tentative(ft.export, ft.name)
    THEN ft.res = [raised |-> FALSE, ok |-> FALSE]
    ELSE IF ft.export.filter_func = NoneVal
    THEN ft.res = [raised |-> FALSE, ok |-> TRUE]
    ELSE IF ft.data.set
    THEN /\ ~ft.res.raised
         /\ ft.res.ok <=> (Range(ft.data.val) \cap Range(ft.labels) # {})
    ELSE ft.res.raised

\* a name in both lists passed, and the filter suppressed it: no pair of data is
\* in the label set
C5_Witness ==
  /\ ft.phase = "ret"
  /\ ft.export.default = "False"
  /\ ft.name \in Range(ft.export.include) \cap Range(ft.export.exclude)
  /\ ft.export.filter_func # NoneVal
  /\ ft.data.set
  /\ Len(ft.data.val) = 2
  /\ Len(ft.labels) = 3
  /\ ft.res = [raised |-> FALSE, ok |-> FALSE]

(***************************************************************************)
(* What a call of _collect_metric is claimed to do to the registry.        *)
(***************************************************************************)
\* thread t makes its pending call of _collect_metric in this step
Visiting(t) == th[t].pc = "walk" /\ HasFrame(th[t]) /\ th'[t] # th[t]

VisitedNode(t) == NodeAt(Member(th[t]), Frame(th[t]).path)

\* a and b are the same number
ValEq(a, b) == a.num * b.den = b.num * a.den

\* the samples of family name in registry m, none where there is no such family
SamplesOf(m, name) == IF HasKey(m, name) THEN m[KeyIndex(m, name)].samples ELSE <<>>

\* registry m2 is m with exactly one observation (labels, value) more, in family name
AddedOne(m, m2, name, labels, value) ==
  /\ Keys(m2) = Keys(m) \cup {name}
  /\ \A k \in Keys(m) \ {name} : m2[KeyIndex(m2, k)] = m[KeyIndex(m, k)]
  /\ Len(SamplesOf(m2, name)) = Len(SamplesOf(m, name)) + 1
  /\ SubSeq(SamplesOf(m2, name), 1, Len(SamplesOf(m, name))) = SamplesOf(m, name)
  /\ SamplesOf(m2, name)[Len(SamplesOf(m2, name))].labels = labels
  /\ ValEq(SamplesOf(m2, name)[Len(SamplesOf(m2, name))].value, value)

\* the observation the pending call of thread t is about to make, if any
Arriving(t) ==
  LET e  == VisitedNode(t)
      ex == ExportTags[th[t].ei]
      l  == Frame(th[t]).labels
  IN  IF get_short_tag(e) = "poolref"
      THEN [some |-> TRUE, name |-> "dcache_" \o ex.prefix \o "_pool_rel",
            labels |-> Append(l, <<"pool", AttrGet(e, "name")>>)]
      ELSE IF /\ get_short_tag(e) = "metric"
              /\ AttrGet(e, "type") \in {"float", "integer", "boolean"}
              /\ collect_metric(ex, data[th[t].ei], metric_transform(AttrGet(e, "name")).name, l).ok
      THEN [some |-> TRUE,
            name |-> "dcache_" \o ex.prefix \o "_" \o metric_transform(AttrGet(e, "name")).name,
            labels |-> l]
      ELSE [some |-> FALSE, name |-> "", labels |-> <<>>]

\* every stored observation carries the label names its family was created with
C2_SamplesCarrySchema ==
  \A i \in 1..Len(metrics) : \A j \in 1..Len(metrics[i].samples) :
    LabelNames(metrics[i].samples[j].labels) = metrics[i].labelnames

\* an observation for an existing family with another label-name list is not
\* added: the registry is left as it was or the pass raises
C2_MismatchRejected ==
  \A t \in Threads :
    (/\ Visiting(t)
     /\ Arriving(t).some
     /\ HasKey(metrics, Arriving(t).name)
     /\ metrics[KeyIndex(metrics, Arriving(t).name)].labelnames
          # LabelNames(Arriving(t).labels))
    => (metrics' = metrics \/ th'[t].exc # NoneVal)

\* C2: every stored observation carries exactly the label names fixed when its
\* family was created, and an observation arriving for an existing metric name
\* with a different label-name list is rejected or aborts the pass.
C2_LabelSchemaEnforced == []C2_SamplesCarrySchema /\ [][C2_MismatchRejected]_vars

\* C7: a relation-reference node adds exactly one observation, to
\* dcache_<p>_pool_rel, with value 1 and the current label set followed by
\* ("pool", P), and none of its children is visited.
C7_PoolrefAddsOneRelation ==
  [][\A t \in Threads :
       (Visiting(t) /\ get_short_tag(VisitedNode(t)) = "poolref") =>
         /\ AddedOne(metrics, metrics',
                     "dcache_" \o ExportTags[th[t].ei].prefix \o "_pool_rel",
                     Append(Frame(th[t]).labels,
                            <<"pool", AttrGet(VisitedNode(t), "name")>>),
                     One)
         /\ th'[t].stack = (IF th[t].stack = <<>> THEN <<>> ELSE Tail(th[t].stack))]_vars

\* the value a value node is claimed to yield
ExpectedValue(e) ==
  LET v == IF AttrGet(e, "type") = "boolean"
           THEN (IF Strip(e.text) = "true" THEN One ELSE [num |-> 0, den |-> 1])
           ELSE IF AttrGet(e, "type") = "float" THEN ParseFloat(e.text)
           ELSE ParseInt(e.text)
  IN  IF AttrGet(e, "name") = "last-heartbeat"
      THEN [num |-> v.num, den |-> v.den * 1000]
      ELSE v

\* a value node adds one observation with the current label set, or nothing
C10_ValueNodeStep ==
  \A t \in Threads :
    (Visiting(t) /\ get_short_tag(VisitedNode(t)) = "metric" /\ th'[t].exc = NoneVal) =>
      LET e  == VisitedNode(t)
          ex == ExportTags[th[t].ei]
          l  == Frame(th[t]).labels
          tn == metric_transform(AttrGet(e, "name")).name
      IN  /\ SubSeq(l, 1, 2) = ExpectedSeed(Member(th[t]), ex.prefix)
          /\ IF /\ AttrGet(e, "type") \in {"float", "integer", "boolean"}
                /\ collect_metric(ex, data[th[t].ei], tn, l).ok
             THEN AddedOne(metrics, metrics', "dcache_" \o ex.prefix \o "_" \o tn, l,
                           ExpectedValue(e))
             ELSE metrics' = metrics

\* the instance: pool1@qualifier with used-bytes = 1024
C10_Instance ==
  \A t \in Threads :
    (th[t].pc = "done" /\ th[t].doc # 0 /\ Docs[th[t].doc] = DocPools) =>
      \E i \in 1..Len(th[t].out) :
        /\ th[t].out[i].name = "dcache_pool_used_bytes"
        /\ \E j \in 1..Len(th[t].out[i].samples) :
             /\ th[t].out[i].samples[j].labels =
                  << <<"dcache_cluster", Cluster>>, <<"pool", "pool1">> >>
             /\ ValEq(th[t].out[i].samples[j].value, [num |-> 1024, den |-> 1])

\* C10: a value node of scalar type whose transformed name passes the filter adds
\* exactly one observation to dcache_<p>_<t>, labelled with the current label set
\* (seed labels first) and valued with the coerced, scaled leaf text; any other
\* value node leaves the registry unchanged.
C10_ValueNodeObservation == []C10_Instance /\ [][C10_ValueNodeStep]_vars

\* C1: a pass that overlaps another emits what a pass run alone over the same
\* document emits.
C1_PassesIndependent ==
  \A t \in Threads :
    (th[t].pc = "done" /\ th[t].doc # 0 /\ memo.doc = th[t].doc) =>
      (th[t].out = memo.out /\ th[t].exc = memo.exc)

\* C9: a fetch that has started ends.
C9_FetchTerminates ==
  \A t \in Threads :
    (th[t].pc \in {"connect", "recv", "parse"})
      ~> (th[t].pc \notin {"connect", "recv", "parse"})

=============================================================================
